---- MODULE Spec2Model ----
(***************************************************************************)
(* Windows tunnel bring-up of mullvadvpn-app:                              *)
(*   talpid-core/src/tunnel/wireguard/wireguard_nt.rs  driver binding,     *)
(*                                                     adapter handle,     *)
(*                                                     start_tunnel        *)
(*   talpid-core/src/tunnel/windows.rs                 interface-change    *)
(*                                                     notifier, wait,     *)
(*                                                     address codec       *)
(*   mullvad-rpc/src/https_client_with_sni.rs          HTTPS connector and *)
(*                                                     its reset handle    *)
(* The parts share no state.  Each has its own specification over its own  *)
(* variables; the other parts' variables stay at their initial values.     *)
(***************************************************************************)
EXTENDS Integers, Sequences, FiniteSets, TLC

(***************************************************************************)
(* Bounds of the model                                                     *)
(***************************************************************************)
\* number of threads that call into wireguard_nt.rs, each running one
\* operation; they may run one after the other or interleaved
NumThreads == 2
\* number of OS threads that deliver interface-change notifications
NumNotifyThreads == 2
\* number of notifications the OS delivers that are not the attachment of
\* IPv4 or IPv6 to the adapter waited for
MaxNoise == 2
\* number of subscriptions made with notify_ip_interface_change that are
\* registered at the same time
NumSubscriptions == 2
\* number of notifications the OS delivers to one subscription
MaxDeliveries == 3
\* number of connect calls made on the HTTPS connector and its clones
NumConnects == 2
\* number of reset requests sent through the connector's handle
MaxResets == 2

VARIABLES
    \* ---- wireguard_nt.rs ----
    WG_NT_DLL,      \* the cache: 0 (None) or the id of the cached WgNtDll
    mutexOwner,     \* holder of the WG_NT_DLL mutex: 0 or a thread
    images,         \* library images mapped so far, by id (see NewImage)
    adapters,       \* the native adapter handle each thread created, if any
    pc,             \* per thread: position in its operation
    op,             \* per thread: the operation it runs
    dll,            \* per thread: the local Arc<WgNtDll> (0: none)
    device,         \* per thread: the handle of its WgNtAdapter (0: none)
    reboot_required,\* per thread: the flag returned by create
    result,         \* per thread: what the operation returned
    newCalls,       \* executions of WgNtDll::new
    newFailures,    \* executions of WgNtDll::new that returned Err
    resource_dir,   \* per thread: the directory the operation was given
    createCalls,    \* per thread: its calls of WgNtDll::create_adapter
    failed_step,    \* per thread: the step of WgNtDll::new that failed
    dll_error,      \* per thread: the io::Error inside Error::DllError
    warned,         \* per thread: start_tunnel logged the reboot warning
    loaded_from,    \* per image: the directory it was mapped from
    \* ---- windows.rs: wait_for_interfaces and the OS around it ----
    want,           \* the arguments ipv4, ipv6 of the wait
    wpc,            \* position of the wait
    wres,           \* what the wait returned, or that it was abandoned
    closure,        \* state captured by the callback: found_ipv4,
                    \* found_ipv6, tx (is Some), sends (tx.send calls)
    closureFreed,   \* the callback and what it captured were dropped
    lateCallback,   \* a callback body ran on the dropped closure
    sub,            \* the registration with NotifyIpInterfaceChange
    cancelCalls,    \* CancelMibChangeNotify2 calls on the registered handle
    cancelNullCalls,\* CancelMibChangeNotify2 calls on a null handle
    queried,        \* answers of the direct row queries, per family
    reachedAwait,   \* control reached rx.await, the suspension point
    attached,       \* rows of the adapter that exist, per family
    pending,        \* notifications the OS has queued for the subscription
    invocation,     \* per notification thread: its call of inner_callback
    cbMutex,        \* holder of IpNotifierHandle.callback's mutex
    noise,          \* notifications generated by OsOtherEvent
    \* ---- windows.rs: socket address conversion ----
    apc,            \* position of the conversion: input, encoded, decoded
    addr,           \* the SocketAddr given to inet_sockaddr_from_socketaddr
    sockaddr,       \* the SOCKADDR_INET, as its bytes in memory
    decoded,        \* result of try_socketaddr_from_inet_sockaddr
    \* ---- windows.rs: several IpNotifierHandle at once ----
    ncall,          \* per notification thread: its call of inner_callback
                    \* and the IpNotifierHandle it was given as context
    nmutex,         \* per subscription: holder of its callback mutex
    ndelivered,     \* per subscription: notifications delivered so far
    \* ---- https_client_with_sni.rs ----
    hpc,            \* per connect call: position in the future of call()
    stream,         \* per connect call: its TCP connection (none, open,
                    \* closed)
    stream_handles, \* inner.stream_handles, the registered stream handles
    reset_queue,    \* reset requests in the channel, not yet received
    rpc,            \* position of the task spawned by new()
    handles,        \* the task's local `handles`
    resets_sent,    \* reset requests sent so far
    resets_done,    \* reset requests the task has finished processing
    open_at_reset   \* per reset request: the connect calls whose TCP
                    \* connection was open when the request was sent

drvVars == <<WG_NT_DLL, mutexOwner, images, adapters, pc, op, dll, device,
             reboot_required, result, newCalls, newFailures, resource_dir,
             createCalls, failed_step, dll_error, warned, loaded_from>>

waitVars == <<want, wpc, wres, closure, closureFreed, lateCallback, sub,
              cancelCalls, cancelNullCalls, queried, reachedAwait, attached,
              pending, invocation, cbMutex, noise>>

addrVars == <<apc, addr, sockaddr, decoded>>

notifyVars == <<ncall, nmutex, ndelivered>>

httpsVars == <<hpc, stream, stream_handles, reset_queue, rpc, handles,
               resets_sent, resets_done, open_at_reset>>

vars == <<drvVars, waitVars, addrVars, notifyVars, httpsVars>>

\* what the operations of one part leave alone
nonDrvVars == <<waitVars, addrVars, notifyVars, httpsVars>>
nonWaitVars == <<drvVars, addrVars, notifyVars, httpsVars>>
nonAddrVars == <<drvVars, waitVars, notifyVars, httpsVars>>
nonNotifyVars == <<drvVars, waitVars, addrVars, httpsVars>>
nonHttpsVars == <<drvVars, waitVars, addrVars, notifyVars>>

(***************************************************************************)
(* wireguard_nt.rs                                                         *)
(***************************************************************************)
Threads == 1..NumThreads

\* The two ways the model uses a WgNtAdapter: inside start_tunnel, and as a
\* value whose owner either calls delete(self) or lets it go out of scope.
Operations == {"start_tunnel", "adapter"}

\* outcomes of LoadLibraryExW followed by the three GetProcAddress calls
NewOutcomes == {"ok", "load_failed", "symbol_missing"}

\* directories a caller passes as resource_dir
Paths == {"dirA", "dirB"}

\* the exports new_inner resolves, in the order it resolves them
Exports ==
    {"WireGuardCreateAdapter", "WireGuardDeleteAdapter", "WireGuardFreeAdapter"}

\* io::Error::last_os_error() after the named call failed: the code the OS
\* left in the thread's last-error slot.  LoadLibraryExW fails for a missing
\* image, and also with the code of GetProcAddress when an import of the
\* image cannot be bound.
LastOsErrors(api) ==
    IF api = "LoadLibraryExW"
    THEN {"ERROR_MOD_NOT_FOUND", "ERROR_PROC_NOT_FOUND"}
    ELSE {"ERROR_PROC_NOT_FOUND"}

\* load_wg_nt_dll(resource_dir)? continuing into create after an Err
AfterLoadErrorContinue == "create"

\* load_wg_nt_dll(resource_dir)?: an Err returns from the operation
AfterLoadError == "done"

\* a reboot request turned into a failure of start_tunnel
StartTunnelValueRebootFails(rr) == IF rr THEN "RebootRequired" ELSE "Ok"

\* start_tunnel after a successful create: the warning is logged when the
\* flag is set, and Ok(WgNtTunnel {}) is returned either way
StartTunnelValue(rr) == "Ok"

\* A mapped library image.  mapped: LoadLibraryExW succeeded and FreeLibrary
\* has not been called; bound: a WgNtDll value owns the image; refs: strong
\* count of the Arc<WgNtDll>.
NewImage(isBound, refCount) ==
    [mapped |-> TRUE, bound |-> isBound, refs |-> refCount]

\* handing out the cached Arc without counting the new reference
ArcCloneUncounted(imgs, b) == imgs

\* Arc::clone
ArcClone(imgs, b) == [imgs EXCEPT ![b].refs = @ + 1]

\* Drop of one Arc<WgNtDll>: the last reference runs Drop for WgNtDll,
\* which calls FreeLibrary.
ArcDrop(imgs, b) ==
    IF imgs[b].refs = 1
    THEN [imgs EXCEPT ![b].refs = 0, ![b].mapped = FALSE, ![b].bound = FALSE]
    ELSE [imgs EXCEPT ![b].refs = @ - 1]

\* A native adapter handle as the driver sees it: how often each release
\* entry point was invoked on it, and how the owning WgNtAdapter ended.
\* A thread creates at most one handle, so the thread's number names it.
NewAdapter(b) ==
    [dll |-> b, freeCalls |-> 0, deleteCalls |-> 0, fate |-> "live"]

NoAdapter ==
    [dll |-> 0, freeCalls |-> 0, deleteCalls |-> 0, fate |-> "none"]

\* WgNtDll::free_adapter
free_adapter(ads, h) == [ads EXCEPT ![h].freeCalls = @ + 1]

\* WgNtDll::delete_adapter: the call itself; its BOOL result is the caller's
\* nondeterministic input
delete_adapter(ads, h) == [ads EXCEPT ![h].deleteCalls = @ + 1]


\* Drop for WgNtAdapter with the free_adapter call left out
DropWgNtAdapterNoFree(ads, h) == ads

\* Drop for WgNtAdapter: the native handle is freed
DropWgNtAdapter(ads, h) == free_adapter(ads, h)

\* a cache that is only hit by a caller with the directory it was filled
\* from
CacheIsSomeSamePath(path) == WG_NT_DLL # 0 /\ loaded_from[WG_NT_DLL] = path

\* load_wg_nt_dll: the match on the cache takes the Some arm; the
\* resource_dir of the call plays no part in it
CacheIsSome(path) == WG_NT_DLL # 0

\* a cache that remembers a failed load with a marker that is not None
CacheAfterLoadErrorMarked(cache) == cache - 1

\* load_wg_nt_dll, the None arm: the `?` on the Err of WgNtDll::new returns
\* before the store into the cache, which keeps its value
CacheAfterLoadError(cache) == cache

\* a lock that excludes nobody
MutexFreeNoExclusion == TRUE

\* Mutex::lock on WG_NT_DLL can be taken
MutexFree == mutexOwner = 0

DrvInit ==
    /\ WG_NT_DLL = 0
    /\ mutexOwner = 0
    /\ images = << >>
    /\ adapters = [t \in Threads |-> NoAdapter]
    /\ pc = [t \in Threads |-> "idle"]
    /\ op = [t \in Threads |-> "none"]
    /\ dll = [t \in Threads |-> 0]
    /\ device = [t \in Threads |-> 0]
    /\ reboot_required = [t \in Threads |-> FALSE]
    /\ result = [t \in Threads |-> "none"]
    /\ newCalls = 0
    /\ newFailures = 0
    /\ resource_dir = [t \in Threads |-> "none"]
    /\ createCalls = [t \in Threads |-> 0]
    /\ failed_step = [t \in Threads |-> "none"]
    /\ dll_error = [t \in Threads |-> "none"]
    /\ warned = [t \in Threads |-> FALSE]
    /\ loaded_from = << >>

\* A thread calls start_tunnel, or creates a WgNtAdapter of its own; both
\* begin with load_wg_nt_dll.
Begin(t, o, path) ==
    /\ pc[t] = "idle"
    /\ op' = [op EXCEPT ![t] = o]
    /\ resource_dir' = [resource_dir EXCEPT ![t] = path]
    /\ pc' = [pc EXCEPT ![t] = "lock"]
    /\ UNCHANGED <<WG_NT_DLL, mutexOwner, images, adapters, dll, device,
                   reboot_required, result, newCalls, newFailures>>
    /\ UNCHANGED <<createCalls, failed_step, dll_error, warned, loaded_from>>
    /\ UNCHANGED nonDrvVars

\* load_wg_nt_dll: (*WG_NT_DLL).lock()
LockDll(t) ==
    /\ pc[t] = "lock"
    /\ MutexFree
    /\ mutexOwner' = t
    /\ pc' = [pc EXCEPT ![t] = "match"]
    /\ UNCHANGED <<WG_NT_DLL, images, adapters, op, dll, device,
                   reboot_required, result, newCalls, newFailures>>
    /\ UNCHANGED <<resource_dir, createCalls, failed_step, dll_error, warned,
                   loaded_from>>
    /\ UNCHANGED nonDrvVars

\* load_wg_nt_dll: Some(dll) => Ok(dll.clone()); the guard is released on
\* return
MatchSome(t) ==
    /\ pc[t] = "match"
    /\ CacheIsSome(resource_dir[t])
    /\ dll' = [dll EXCEPT ![t] = WG_NT_DLL]
    /\ images' = ArcClone(images, WG_NT_DLL)
    /\ mutexOwner' = 0
    /\ pc' = [pc EXCEPT ![t] = "create"]
    /\ UNCHANGED <<WG_NT_DLL, adapters, op, device, reboot_required, result,
                   newCalls, newFailures>>
    /\ UNCHANGED <<resource_dir, createCalls, failed_step, dll_error, warned,
                   loaded_from>>
    /\ UNCHANGED nonDrvVars

\* load_wg_nt_dll: None => ...
MatchNone(t) ==
    /\ pc[t] = "match"
    /\ ~CacheIsSome(resource_dir[t])
    /\ pc' = [pc EXCEPT ![t] = "new"]
    /\ UNCHANGED <<WG_NT_DLL, mutexOwner, images, adapters, op, dll, device,
                   reboot_required, result, newCalls, newFailures>>
    /\ UNCHANGED <<resource_dir, createCalls, failed_step, dll_error, warned,
                   loaded_from>>
    /\ UNCHANGED nonDrvVars

\* load_wg_nt_dll, the None arm: WgNtDll::new, then on success the store
\* into the cache, on failure the early return of `?`; the guard is released
\* on return.  WgNtDll::new maps the image with LoadLibraryExW and resolves
\* the three exports; when an export is missing new_inner returns Err and
\* no WgNtDll value is built around the mapped image.  Either failure is
\* io::Error::last_os_error(), wrapped in Error::DllError by the caller.
NewDll(t, outcome) ==
    /\ pc[t] = "new"
    /\ newCalls' = newCalls + 1
    /\ mutexOwner' = 0
    /\ IF outcome = "ok"
       THEN /\ images' = Append(images, NewImage(TRUE, 2))
            /\ loaded_from' = Append(loaded_from, resource_dir[t])
            /\ WG_NT_DLL' = Len(images) + 1
            /\ dll' = [dll EXCEPT ![t] = Len(images) + 1]
            /\ pc' = [pc EXCEPT ![t] = "create"]
            /\ UNCHANGED <<result, newFailures, failed_step, dll_error>>
       ELSE /\ IF outcome = "symbol_missing"
               THEN /\ images' = Append(images, NewImage(FALSE, 0))
                    /\ loaded_from' = Append(loaded_from, resource_dir[t])
                    /\ \E name \in Exports :
                          failed_step' = [failed_step EXCEPT ![t] = name]
                    /\ \E e \in LastOsErrors("GetProcAddress") :
                          dll_error' = [dll_error EXCEPT ![t] = e]
               ELSE /\ UNCHANGED <<images, loaded_from>>
                    /\ failed_step' =
                          [failed_step EXCEPT ![t] = "LoadLibraryExW"]
                    /\ \E e \in LastOsErrors("LoadLibraryExW") :
                          dll_error' = [dll_error EXCEPT ![t] = e]
            /\ newFailures' = newFailures + 1
            /\ result' = [result EXCEPT ![t] = "DllError"]
            /\ pc' = [pc EXCEPT ![t] = AfterLoadError]
            /\ WG_NT_DLL' = CacheAfterLoadError(WG_NT_DLL)
            /\ UNCHANGED dll
    /\ UNCHANGED <<adapters, op, device, reboot_required>>
    /\ UNCHANGED <<resource_dir, createCalls, warned>>
    /\ UNCHANGED nonDrvVars

\* WgNtAdapter::create: create_adapter returns a handle and the reboot flag,
\* or null; on failure the Arc passed in is dropped.
CreateAdapter(t, ok, rr) ==
    /\ pc[t] = "create"
    /\ IF ok
       THEN /\ adapters' = [adapters EXCEPT ![t] = NewAdapter(dll[t])]
            /\ device' = [device EXCEPT ![t] = t]
            /\ reboot_required' = [reboot_required EXCEPT ![t] = rr]
            /\ pc' = [pc EXCEPT ![t] = "created"]
            /\ UNCHANGED <<images, result>>
       ELSE /\ images' = ArcDrop(images, dll[t])
            /\ result' = [result EXCEPT ![t] =
                            IF op[t] = "start_tunnel"
                            THEN "CreateTunnelDeviceError" ELSE "OsError"]
            /\ pc' = [pc EXCEPT ![t] = "done"]
            /\ UNCHANGED <<adapters, device, reboot_required>>
    /\ dll' = [dll EXCEPT ![t] = 0]
    /\ createCalls' = [createCalls EXCEPT ![t] = @ + 1]
    /\ UNCHANGED <<WG_NT_DLL, mutexOwner, op, newCalls, newFailures>>
    /\ UNCHANGED <<resource_dir, failed_step, dll_error, warned, loaded_from>>
    /\ UNCHANGED nonDrvVars

\* start_tunnel after create: the warning, then Ok(WgNtTunnel {}).  The
\* local `device` goes out of scope at the return, which runs Drop for
\* WgNtAdapter and drops its Arc.  device[t] keeps the handle's id so that
\* the finished call can be related to the handle it created.
StartTunnelReturn(t) ==
    /\ pc[t] = "created"
    /\ op[t] = "start_tunnel"
    /\ adapters' = [DropWgNtAdapter(adapters, device[t])
                       EXCEPT ![device[t]].fate = "dropped"]
    /\ images' = ArcDrop(images, adapters[device[t]].dll)
    /\ warned' = [warned EXCEPT ![t] = reboot_required[t]]
    /\ result' = [result EXCEPT ![t] = StartTunnelValue(reboot_required[t])]
    /\ pc' = [pc EXCEPT ![t] = "done"]
    /\ UNCHANGED <<WG_NT_DLL, mutexOwner, op, dll, device, reboot_required,
                   newCalls, newFailures>>
    /\ UNCHANGED <<resource_dir, createCalls, failed_step, dll_error,
                   loaded_from>>
    /\ UNCHANGED nonDrvVars

\* WgNtAdapter::delete(self): delete_adapter on the handle; `self` goes out
\* of scope at the end of delete, which runs Drop for WgNtAdapter.
AdapterDelete(t, ok) ==
    /\ pc[t] = "created"
    /\ op[t] = "adapter"
    /\ adapters' = [DropWgNtAdapter(delete_adapter(adapters, device[t]), device[t])
                       EXCEPT ![device[t]].fate =
                                 IF ok THEN "deleted" ELSE "delete_failed"]
    /\ images' = ArcDrop(images, adapters[device[t]].dll)
    /\ result' = [result EXCEPT ![t] = IF ok THEN "Ok" ELSE "OsError"]
    /\ pc' = [pc EXCEPT ![t] = "done"]
    /\ UNCHANGED <<WG_NT_DLL, mutexOwner, op, dll, device, reboot_required,
                   newCalls, newFailures>>
    /\ UNCHANGED <<resource_dir, createCalls, failed_step, dll_error, warned,
                   loaded_from>>
    /\ UNCHANGED nonDrvVars

\* A WgNtAdapter goes out of scope without delete having been called.
AdapterDrop(t) ==
    /\ pc[t] = "created"
    /\ op[t] = "adapter"
    /\ adapters' = [DropWgNtAdapter(adapters, device[t])
                       EXCEPT ![device[t]].fate = "dropped"]
    /\ images' = ArcDrop(images, adapters[device[t]].dll)
    /\ result' = [result EXCEPT ![t] = "Ok"]
    /\ pc' = [pc EXCEPT ![t] = "done"]
    /\ UNCHANGED <<WG_NT_DLL, mutexOwner, op, dll, device, reboot_required,
                   newCalls, newFailures>>
    /\ UNCHANGED <<resource_dir, createCalls, failed_step, dll_error, warned,
                   loaded_from>>
    /\ UNCHANGED nonDrvVars

\* The caller is done with what the operation returned; for a successful
\* start_tunnel this drops the WgNtTunnel value, which has no fields and
\* no Drop, so nothing is released.
Finish(t) ==
    /\ pc[t] = "done"
    /\ pc' = [pc EXCEPT ![t] = "finished"]
    /\ UNCHANGED <<WG_NT_DLL, mutexOwner, images, adapters, op, dll, device,
                   reboot_required, result, newCalls, newFailures>>
    /\ UNCHANGED <<resource_dir, createCalls, failed_step, dll_error, warned,
                   loaded_from>>
    /\ UNCHANGED nonDrvVars

DrvNext ==
    \E t \in Threads :
        \/ \E o \in Operations, path \in Paths : Begin(t, o, path)
        \/ LockDll(t)
        \/ MatchSome(t)
        \/ MatchNone(t)
        \/ \E outcome \in NewOutcomes : NewDll(t, outcome)
        \/ \E ok \in BOOLEAN, rr \in BOOLEAN : CreateAdapter(t, ok, rr)
        \/ StartTunnelReturn(t)
        \/ \E ok \in BOOLEAN : AdapterDelete(t, ok)
        \/ AdapterDrop(t)
        \/ Finish(t)

(***************************************************************************)
(* windows.rs: notify_ip_interface_change and wait_for_interfaces          *)
(***************************************************************************)
\* ws2def address families
AF_UNSPEC == 0
AF_INET == 2
AF_INET6 == 23

\* netioapi MIB_NOTIFICATION_TYPE
MibParameterNotification == 0
MibAddInstance == 1
MibDeleteInstance == 2

Families == {AF_INET, AF_INET6}

NotifyThreads == 1..NumNotifyThreads

\* the luid passed to wait_for_interfaces, and the luid of another interface
Luid == "adapter"
OtherLuid == "other"

\* a delivered notification: the row's InterfaceLuid and Family, and the
\* notification type
Event(l, ty, f) == [luid |-> l, ntype |-> ty, family |-> f]

\* the notification the OS delivers when family f attaches to the adapter
AttachEvent(f) == Event(Luid, MibAddInstance, f)

\* notifications that are no attachment of IPv4 or IPv6 to the adapter:
\* another interface, another notification type, another family
NoiseEvents ==
    {Event(OtherLuid, MibAddInstance, AF_INET),
     Event(Luid, MibParameterNotification, AF_INET),
     Event(Luid, MibDeleteInstance, AF_INET6),
     Event(Luid, MibAddInstance, AF_UNSPEC)}

\* wait_for_interfaces: found_ipv4, found_ipv6 and tx as captured by the
\* closure
NewClosure(ipv4, ipv6) ==
    [found_ipv4 |-> ~ipv4, found_ipv6 |-> ~ipv6, tx |-> TRUE, sends |-> 0]

\* the closure without its InterfaceLuid check
CallbackAnyLuid(c, ev) ==
    IF c.found_ipv4 /\ c.found_ipv6 THEN c
    ELSE IF ev.ntype # MibAddInstance THEN c
    ELSE LET m == CASE ev.family = AF_INET -> [c EXCEPT !.found_ipv4 = TRUE]
                    [] ev.family = AF_INET6 -> [c EXCEPT !.found_ipv6 = TRUE]
                    [] OTHER -> c
         IN IF m.found_ipv4 /\ m.found_ipv6 /\ m.tx
            THEN [m EXCEPT !.tx = FALSE, !.sends = @ + 1]
            ELSE m

\* the closure without its early return and with a sender that is not
\* consumed by send
CallbackSendsAgain(c, ev) ==
    IF ev.ntype # MibAddInstance THEN c
    ELSE IF ev.luid # Luid THEN c
    ELSE LET m == CASE ev.family = AF_INET -> [c EXCEPT !.found_ipv4 = TRUE]
                    [] ev.family = AF_INET6 -> [c EXCEPT !.found_ipv6 = TRUE]
                    [] OTHER -> c
         IN IF m.found_ipv4 /\ m.found_ipv6
            THEN [m EXCEPT !.tx = FALSE, !.sends = @ + 1]
            ELSE m

\* the closure passed to notify_ip_interface_change
Callback(c, ev) ==
    IF c.found_ipv4 /\ c.found_ipv6 THEN c
    ELSE IF ev.ntype # MibAddInstance THEN c
    ELSE IF ev.luid # Luid THEN c
    ELSE LET m == CASE ev.family = AF_INET -> [c EXCEPT !.found_ipv4 = TRUE]
                    [] ev.family = AF_INET6 -> [c EXCEPT !.found_ipv6 = TRUE]
                    [] OTHER -> c
         IN IF m.found_ipv4 /\ m.found_ipv6 /\ m.tx
            THEN [m EXCEPT !.tx = FALSE, !.sends = @ + 1]
            ELSE m

\* ip_interface_entry_exists with the result of the match inverted
ip_interface_entry_exists_inverted(answer) ==
    CASE answer = "found" -> "false"
      [] answer = "notfound" -> "true"
      [] OTHER -> "err"

\* ip_interface_entry_exists without the ERROR_NOT_FOUND arm
ip_interface_entry_exists_no_not_found(answer) ==
    CASE answer = "found" -> "true"
      [] OTHER -> "err"

\* ip_interface_entry_exists, from the answer of GetIpInterfaceEntry
ip_interface_entry_exists(answer) ==
    CASE answer = "found" -> "true"
      [] answer = "notfound" -> "false"
      [] OTHER -> "err"

\* what GetIpInterfaceEntry can answer for family f: the row or not-found,
\* or another error
QueryAnswers(f) ==
    {IF attached[f] THEN "found" ELSE "notfound", "error"}

\* an IpNotifierHandle that is released without unregistering
IpNotifierHandleLeak(s, n) == [sub |-> s, cancelCalls |-> n]

\* Drop for IpNotifierHandle on a registered handle: CancelMibChangeNotify2
IpNotifierHandleDrop(s, n) == [sub |-> "cancelling", cancelCalls |-> n + 1]

IdleInvocation == [st |-> "idle", ev |-> Event(OtherLuid, MibAddInstance, AF_UNSPEC)]

\* a wait that runs its direct queries before it registers the callback
WaitEntryQueriesFirst == "query4"

\* wait_for_interfaces: the first step after the channel and the flags are
\* set up is notify_ip_interface_change
WaitEntry == "init"

\* the wait's variables before wait_for_interfaces is called, except want
WaitFrame ==
    /\ wpc = WaitEntry
    /\ wres = "none"
    /\ closureFreed = FALSE
    /\ lateCallback = FALSE
    /\ sub = "none"
    /\ cancelCalls = 0
    /\ cancelNullCalls = 0
    /\ queried = [f \in Families |-> "none"]
    /\ reachedAwait = FALSE
    /\ attached = [f \in Families |-> FALSE]
    /\ pending = << >>
    /\ invocation = [n \in NotifyThreads |-> IdleInvocation]
    /\ cbMutex = 0
    /\ noise = 0

\* wait_for_interfaces(luid, ipv4, ipv6) is called: the channel, the flags
WaitInit ==
    /\ want \in [ipv4 : BOOLEAN, ipv6 : BOOLEAN]
    /\ closure = NewClosure(want.ipv4, want.ipv6)
    /\ WaitFrame

\* no wait runs
WaitIdle ==
    /\ want = [ipv4 |-> FALSE, ipv6 |-> FALSE]
    /\ closure = NewClosure(FALSE, FALSE)
    /\ WaitFrame

Wants(f) == IF f = AF_INET THEN want.ipv4 ELSE want.ipv6

\* The wait function returns or is dropped: `_handle` goes out of scope.
\* Drop for IpNotifierHandle calls CancelMibChangeNotify2, which returns
\* once no callback of the subscription is running (EndDrop).
BeginDrop(r) ==
    /\ wres' = r
    /\ wpc' = "dropping"
    /\ sub' = IpNotifierHandleDrop(sub, cancelCalls).sub
    /\ cancelCalls' = IpNotifierHandleDrop(sub, cancelCalls).cancelCalls

\* notify_ip_interface_change: NotifyIpInterfaceChange registers the
\* callback, or fails; on failure `context` is dropped, and Drop for
\* IpNotifierHandle calls CancelMibChangeNotify2 on its null handle.
Register(ok) ==
    /\ wpc = "init"
    /\ IF ok
       THEN /\ sub' = "active"
            /\ wpc' = "query4"
            /\ UNCHANGED <<wres, closureFreed, cancelNullCalls>>
       ELSE /\ sub' = "failed"
            /\ cancelNullCalls' = cancelNullCalls + 1
            /\ closureFreed' = TRUE
            /\ wres' = "OsError"
            /\ wpc' = "done"
    /\ UNCHANGED <<want, closure, lateCallback, cancelCalls, queried,
                   reachedAwait, attached, pending, invocation, cbMutex,
                   noise>>
    /\ UNCHANGED nonWaitVars

\* wait_for_interfaces: !ipv4 || ip_interface_entry_exists(AF_INET)?
\* false short-circuits the && and leads to rx.await.
Query4(answer) ==
    /\ wpc = "query4"
    /\ IF ~want.ipv4
       THEN /\ wpc' = "query6"
            /\ UNCHANGED <<wres, sub, cancelCalls, queried, reachedAwait>>
       ELSE /\ answer \in QueryAnswers(AF_INET)
            /\ queried' = [queried EXCEPT ![AF_INET] = answer]
            /\ CASE ip_interface_entry_exists(answer) = "true" ->
                      /\ wpc' = "query6"
                      /\ UNCHANGED <<wres, sub, cancelCalls, reachedAwait>>
                 [] ip_interface_entry_exists(answer) = "false" ->
                      /\ wpc' = "await"
                      /\ reachedAwait' = TRUE
                      /\ UNCHANGED <<wres, sub, cancelCalls>>
                 [] OTHER ->
                      /\ BeginDrop("OsError")
                      /\ UNCHANGED reachedAwait
    /\ UNCHANGED <<want, closure, closureFreed, lateCallback, cancelNullCalls,
                   attached, pending, invocation, cbMutex, noise>>
    /\ UNCHANGED nonWaitVars

\* wait_for_interfaces: !ipv6 || ip_interface_entry_exists(AF_INET6)?
\* true returns Ok(()), false leads to rx.await.
Query6(answer) ==
    /\ wpc = "query6"
    /\ IF ~want.ipv6
       THEN /\ BeginDrop("Ok")
            /\ UNCHANGED <<queried, reachedAwait>>
       ELSE /\ answer \in QueryAnswers(AF_INET6)
            /\ queried' = [queried EXCEPT ![AF_INET6] = answer]
            /\ CASE ip_interface_entry_exists(answer) = "true" ->
                      /\ BeginDrop("Ok")
                      /\ UNCHANGED reachedAwait
                 [] ip_interface_entry_exists(answer) = "false" ->
                      /\ wpc' = "await"
                      /\ reachedAwait' = TRUE
                      /\ UNCHANGED <<wres, sub, cancelCalls>>
                 [] OTHER ->
                      /\ BeginDrop("OsError")
                      /\ UNCHANGED reachedAwait
    /\ UNCHANGED <<want, closure, closureFreed, lateCallback, cancelNullCalls,
                   attached, pending, invocation, cbMutex, noise>>
    /\ UNCHANGED nonWaitVars

\* rx.await completes once tx.send was called; Ok(()) is returned.
Resume ==
    /\ wpc = "await"
    /\ closure.sends > 0
    /\ BeginDrop("Ok")
    /\ UNCHANGED <<want, closure, closureFreed, lateCallback, cancelNullCalls,
                   queried, reachedAwait, attached, pending, invocation,
                   cbMutex, noise>>
    /\ UNCHANGED nonWaitVars

\* The caller drops the future while it is suspended at rx.await.
Abandon ==
    /\ wpc = "await"
    /\ BeginDrop("abandoned")
    /\ UNCHANGED <<want, closure, closureFreed, lateCallback, cancelNullCalls,
                   queried, reachedAwait, attached, pending, invocation,
                   cbMutex, noise>>
    /\ UNCHANGED nonWaitVars

\* Drop for IpNotifierHandle completes: CancelMibChangeNotify2 has returned,
\* which it does when no callback of the subscription is running; then the
\* fields (the callback and what it captured) are dropped.
EndDrop ==
    /\ wpc = "dropping"
    /\ sub = "cancelling" => \A n \in NotifyThreads : invocation[n].st = "idle"
    /\ sub' = IF sub = "cancelling" THEN "cancelled" ELSE sub
    /\ closureFreed' = TRUE
    /\ wpc' = "done"
    /\ UNCHANGED <<want, wres, closure, lateCallback, cancelCalls,
                   cancelNullCalls, queried, reachedAwait, attached, pending,
                   invocation, cbMutex, noise>>
    /\ UNCHANGED nonWaitVars

\* The OS attaches family f to the adapter: the row exists from now on, and
\* a registered subscription is sent an "instance added" notification.
OsAttach(f) ==
    /\ ~attached[f]
    /\ attached' = [attached EXCEPT ![f] = TRUE]
    /\ pending' = IF sub = "active" THEN Append(pending, AttachEvent(f))
                  ELSE pending
    /\ UNCHANGED <<want, wpc, wres, closure, closureFreed, lateCallback, sub,
                   cancelCalls, cancelNullCalls, queried, reachedAwait,
                   invocation, cbMutex, noise>>
    /\ UNCHANGED nonWaitVars

\* The OS sends the subscription some other notification.
OsOtherEvent(ev) ==
    /\ sub = "active"
    /\ noise < MaxNoise
    /\ noise' = noise + 1
    /\ pending' = Append(pending, ev)
    /\ UNCHANGED <<want, wpc, wres, closure, closureFreed, lateCallback, sub,
                   cancelCalls, cancelNullCalls, queried, reachedAwait,
                   attached, invocation, cbMutex>>
    /\ UNCHANGED nonWaitVars

\* A notification thread calls inner_callback with the next notification of
\* a subscription that is still registered.
Dispatch(n) ==
    /\ sub = "active"
    /\ pending # << >>
    /\ invocation[n].st = "idle"
    /\ invocation' = [invocation EXCEPT ![n] = [st |-> "entered", ev |-> Head(pending)]]
    /\ pending' = Tail(pending)
    /\ UNCHANGED <<want, wpc, wres, closure, closureFreed, lateCallback, sub,
                   cancelCalls, cancelNullCalls, queried, reachedAwait,
                   attached, cbMutex, noise>>
    /\ UNCHANGED nonWaitVars

\* inner_callback: context.callback.lock()
CallbackLock(n) ==
    /\ invocation[n].st = "entered"
    /\ cbMutex = 0
    /\ cbMutex' = n
    /\ invocation' = [invocation EXCEPT ![n].st = "running"]
    /\ UNCHANGED <<want, wpc, wres, closure, closureFreed, lateCallback, sub,
                   cancelCalls, cancelNullCalls, queried, reachedAwait,
                   attached, pending, noise>>
    /\ UNCHANGED nonWaitVars

\* inner_callback: the closure runs on the row and the notification type,
\* then the mutex guard is released.  Running it on a dropped closure is a
\* use after free, recorded in lateCallback.
CallbackBody(n) ==
    /\ invocation[n].st = "running"
    /\ IF closureFreed
       THEN lateCallback' = TRUE /\ UNCHANGED closure
       ELSE closure' = Callback(closure, invocation[n].ev) /\ UNCHANGED lateCallback
    /\ cbMutex' = 0
    /\ invocation' = [invocation EXCEPT ![n] = IdleInvocation]
    /\ UNCHANGED <<want, wpc, wres, closureFreed, sub, cancelCalls,
                   cancelNullCalls, queried, reachedAwait, attached, pending,
                   noise>>
    /\ UNCHANGED nonWaitVars

WaitNext ==
    \/ \E ok \in BOOLEAN : Register(ok)
    \/ \E answer \in {"found", "notfound", "error"} : Query4(answer)
    \/ \E answer \in {"found", "notfound", "error"} : Query6(answer)
    \/ Resume
    \/ Abandon
    \/ EndDrop
    \/ \E f \in Families : OsAttach(f)
    \/ \E ev \in NoiseEvents : OsOtherEvent(ev)
    \/ \E n \in NotifyThreads :
          \/ Dispatch(n)
          \/ CallbackLock(n)
          \/ CallbackBody(n)

(***************************************************************************)
(* windows.rs: SocketAddr <-> SOCKADDR_INET                                *)
(* Memory is modelled as bytes; the target is little-endian, so a native   *)
(* u16 or u32 has its low byte first and to_be/from_be swap the bytes.     *)
(* A u32 value is written as its four base-256 digits, most significant    *)
(* first, since the values exceed the integers of TLC.                     *)
(***************************************************************************)
\* size of the SOCKADDR_INET union in bytes (that of SOCKADDR_IN6)
SockaddrInetSize == 28

\* u16::to_be and u16::from_be on a little-endian target
U16Swap(v) == (v % 256) * 256 + (v \div 256)

\* u32::to_be on a little-endian target
U32Swap(v) == <<v[4], v[3], v[2], v[1]>>

\* mem with the bytes bs stored from offset off (offsets count from 0)
Store(mem, off, bs) ==
    [i \in 1..Len(mem) |->
        IF i > off /\ i <= off + Len(bs) THEN bs[i - off] ELSE mem[i]]

\* the n bytes of mem from offset off
Load(mem, off, n) == [i \in 1..n |-> mem[off + i]]

\* native representation of a u16 / u32, and back
U16Bytes(v) == <<v % 256, v \div 256>>
U32Bytes(v) == <<v[4], v[3], v[2], v[1]>>
U16FromBytes(bs) == bs[1] + 256 * bs[2]
U32FromBytes(bs) == <<bs[4], bs[3], bs[2], bs[1]>>

\* mem::zeroed()
Zeroed(n) == [i \in 1..n |-> 0]

\* inaddr_from_ipaddr: the four octets copied over S_addr
inaddr_from_ipaddr(ip) == Store(Zeroed(4), 0, ip)

\* in6addr_from_ipaddr: the sixteen octets copied over u.Byte
in6addr_from_ipaddr(ip) == Store(Zeroed(16), 0, ip)

\* Ipv4Addr::from(u32): the octets of the value, most significant first
Ipv4AddrFromU32(v) == <<v[1], v[2], v[3], v[4]>>

\* ipaddr_from_inaddr without the to_be()
ipaddr_from_inaddr_no_to_be(in_addr) == Ipv4AddrFromU32(U32FromBytes(in_addr))

\* ipaddr_from_inaddr: Ipv4Addr::from(S_addr.to_be())
ipaddr_from_inaddr(in_addr) ==
    Ipv4AddrFromU32(U32Swap(U32FromBytes(in_addr)))

\* ipaddr_from_in6addr: Ipv6Addr::from(the sixteen bytes)
ipaddr_from_in6addr(in6_addr) == in6_addr

\* SocketAddr::V4(SocketAddrV4::new(ip, port))
SocketAddrV4(ip, port) == [v |-> "V4", ip |-> ip, port |-> port]

\* SocketAddr::V6(SocketAddrV6::new(ip, port, flowinfo, scope_id))
SocketAddrV6(ip, port, flowinfo, scope_id) ==
    [v |-> "V6", ip |-> ip, port |-> port, flowinfo |-> flowinfo,
     scope_id |-> scope_id]

\* inet_sockaddr_from_socketaddr.  SOCKADDR_IN: sin_family at 0, sin_port at
\* 2, sin_addr at 4.  SOCKADDR_IN6: sin6_family at 0, sin6_port at 2,
\* sin6_flowinfo at 4, sin6_addr at 8, sin6_scope_id at 24.  si_family
\* shares offset 0.
inet_sockaddr_from_socketaddr(a) ==
    IF a.v = "V4"
    THEN Store(Store(Store(Zeroed(SockaddrInetSize),
            0, U16Bytes(AF_INET)),
            2, U16Bytes(U16Swap(a.port))),
            4, inaddr_from_ipaddr(a.ip))
    ELSE Store(Store(Store(Store(Store(Zeroed(SockaddrInetSize),
            0, U16Bytes(AF_INET6)),
            2, U16Bytes(U16Swap(a.port))),
            8, in6addr_from_ipaddr(a.ip)),
            4, U32Bytes(a.flowinfo)),
            24, U32Bytes(a.scope_id))

\* try_socketaddr_from_inet_sockaddr matching on the low byte of si_family
try_socketaddr_from_inet_sockaddr_low_byte(mem) ==
    LET family == Load(mem, 0, 1)[1]
    IN CASE family = AF_INET ->
              [tag |-> "Ok",
               addr |-> SocketAddrV4(ipaddr_from_inaddr(Load(mem, 4, 4)),
                                     U16Swap(U16FromBytes(Load(mem, 2, 2))))]
         [] family = AF_INET6 ->
              [tag |-> "Ok",
               addr |-> SocketAddrV6(ipaddr_from_in6addr(Load(mem, 8, 16)),
                                     U16Swap(U16FromBytes(Load(mem, 2, 2))),
                                     U32FromBytes(Load(mem, 4, 4)),
                                     U32FromBytes(Load(mem, 24, 4)))]
         [] OTHER -> [tag |-> "Err", UnknownAddressFamily |-> family]

\* try_socketaddr_from_inet_sockaddr
try_socketaddr_from_inet_sockaddr(mem) ==
    LET family == U16FromBytes(Load(mem, 0, 2))
    IN CASE family = AF_INET ->
              [tag |-> "Ok",
               addr |-> SocketAddrV4(ipaddr_from_inaddr(Load(mem, 4, 4)),
                                     U16Swap(U16FromBytes(Load(mem, 2, 2))))]
         [] family = AF_INET6 ->
              [tag |-> "Ok",
               addr |-> SocketAddrV6(ipaddr_from_in6addr(Load(mem, 8, 16)),
                                     U16Swap(U16FromBytes(Load(mem, 2, 2))),
                                     U32FromBytes(Load(mem, 4, 4)),
                                     U32FromBytes(Load(mem, 24, 4)))]
         [] OTHER -> [tag |-> "Err", UnknownAddressFamily |-> family]

\* the inputs the conversion is run on
OctetSamples == {0, 1, 127, 255}
PortSamples == {0, 1234, 65535}
U32Samples ==
    {<<0, 0, 0, 0>>, <<0, 0, 0, 10>>, <<0, 0, 0, 11>>, <<1, 2, 3, 4>>,
     <<255, 255, 255, 255>>}
Ipv6Samples ==
    {Zeroed(16),
     <<0, 0, 0, 0, 0, 0, 0, 0, 0, 0, 0, 0, 0, 0, 0, 1>>,
     <<0, 1, 0, 2, 0, 3, 0, 4, 0, 5, 0, 6, 0, 7, 0, 8>>,
     <<254, 128, 0, 0, 0, 0, 0, 0, 18, 52, 86, 120, 154, 188, 222, 240>>,
     [i \in 1..16 |-> 255]}

SocketAddrSamples ==
    {SocketAddrV4(ip, port) :
        ip \in [1..4 -> OctetSamples], port \in PortSamples}
    \cup
    {SocketAddrV6(x[1], x[2], x[3], x[4]) :
        x \in Ipv6Samples \X PortSamples \X U32Samples \X U32Samples}

NoSocketAddr == [v |-> "none"]
NoResult == [tag |-> "none"]

AddrFrame ==
    /\ apc = "input"
    /\ sockaddr = Zeroed(SockaddrInetSize)
    /\ decoded = NoResult

AddrInit ==
    /\ addr \in SocketAddrSamples
    /\ AddrFrame

\* no conversion runs
AddrIdle ==
    /\ addr = NoSocketAddr
    /\ AddrFrame

Encode ==
    /\ apc = "input"
    /\ addr # NoSocketAddr
    /\ sockaddr' = inet_sockaddr_from_socketaddr(addr)
    /\ apc' = "encoded"
    /\ UNCHANGED <<addr, decoded>>
    /\ UNCHANGED nonAddrVars

Decode ==
    /\ apc = "encoded"
    /\ decoded' = try_socketaddr_from_inet_sockaddr(sockaddr)
    /\ apc' = "decoded"
    /\ UNCHANGED <<addr, sockaddr>>
    /\ UNCHANGED nonAddrVars

AddrNext == Encode \/ Decode

\* Native structures as a caller of try_socketaddr_from_inet_sockaddr may
\* hand them in: any 16-bit value in si_family, any bytes after it.
FamilySamples == {0, 1, 2, 3, 10, 23, 24, 99, 258, 512, 5888, 65535}
BodySamples ==
    {Zeroed(26),
     [i \in 1..26 |-> 255],
     [i \in 1..26 |-> i],
     [i \in 1..26 |-> IF i <= 2 THEN 2 ELSE 0],
     [i \in 1..26 |-> IF i <= 6 THEN 0 ELSE 23]}
RawSockaddrSamples ==
    {Store(Store(Zeroed(SockaddrInetSize), 0, U16Bytes(family)), 2, body) :
        family \in FamilySamples, body \in BodySamples}

RawInit ==
    /\ addr = NoSocketAddr
    /\ apc = "encoded"
    /\ sockaddr \in RawSockaddrSamples
    /\ decoded = NoResult

RawNext == Decode

(***************************************************************************)
(* windows.rs: callbacks of several subscriptions                          *)
(***************************************************************************)
\* the IpNotifierHandle values that are registered; each owns its callback
\* and the mutex around it
Subscriptions == 1..NumSubscriptions

NoCall == [st |-> "idle", ctx |-> 0]

\* a callback lock that excludes nobody
CallbackMutexFreeNoExclusion(h) == TRUE

\* inner_callback: context.callback.lock() can be taken; the mutex is the
\* one inside the IpNotifierHandle passed as context
CallbackMutexFree(h) == nmutex[h] = 0

\* the subscriptions are registered, no notification was delivered yet
NotifyInit ==
    /\ ncall = [n \in NotifyThreads |-> NoCall]
    /\ nmutex = [h \in Subscriptions |-> 0]
    /\ ndelivered = [h \in Subscriptions |-> 0]

\* The OS calls inner_callback on thread n with the context of
\* subscription h.
InnerCallbackEnter(n, h) ==
    /\ ncall[n].st = "idle"
    /\ ndelivered[h] < MaxDeliveries
    /\ ndelivered' = [ndelivered EXCEPT ![h] = @ + 1]
    /\ ncall' = [ncall EXCEPT ![n] = [st |-> "entered", ctx |-> h]]
    /\ UNCHANGED nmutex
    /\ UNCHANGED nonNotifyVars

\* inner_callback: context.callback.lock()
InnerCallbackLock(n) ==
    /\ ncall[n].st = "entered"
    /\ CallbackMutexFree(ncall[n].ctx)
    /\ nmutex' = [nmutex EXCEPT ![ncall[n].ctx] = n]
    /\ ncall' = [ncall EXCEPT ![n].st = "running"]
    /\ UNCHANGED ndelivered
    /\ UNCHANGED nonNotifyVars

\* inner_callback: the closure returns, the mutex guard is released at the
\* end of the statement
InnerCallbackReturn(n) ==
    /\ ncall[n].st = "running"
    /\ nmutex' = [nmutex EXCEPT ![ncall[n].ctx] = 0]
    /\ ncall' = [ncall EXCEPT ![n] = NoCall]
    /\ UNCHANGED ndelivered
    /\ UNCHANGED nonNotifyVars

NotifyNext ==
    \E n \in NotifyThreads :
        \/ \E h \in Subscriptions : InnerCallbackEnter(n, h)
        \/ InnerCallbackLock(n)
        \/ InnerCallbackReturn(n)

(***************************************************************************)
(* https_client_with_sni.rs                                                *)
(***************************************************************************)
\* the connect calls; the connector's clones share `inner`, so it does not
\* matter on which clone a call is made
Connects == 1..NumConnects

\* AbortableStreamHandle::close on each handle of hs
CloseAll(st, hs) == [c \in Connects |-> IF c \in hs THEN "closed" ELSE st[c]]

\* stream_handles.retain(|handle| !handle.is_closed())
Retain(hs, st) == {c \in hs : st[c] # "closed"}

\* HttpsConnectorWithSni::new has returned: no stream, an empty channel,
\* the spawned task waits in rx.next()
HttpsInit ==
    /\ hpc = [c \in Connects |-> "idle"]
    /\ stream = [c \in Connects |-> "none"]
    /\ stream_handles = {}
    /\ reset_queue = 0
    /\ rpc = "next"
    /\ handles = {}
    /\ resets_sent = 0
    /\ resets_done = 0
    /\ open_at_reset = [r \in 1..MaxResets |-> {}]

\* call(): the scheme and host name checks and resolve_address; an error
\* of any of them ends the future
CallBegin(c, ok) ==
    /\ hpc[c] = "idle"
    /\ hpc' = [hpc EXCEPT ![c] = IF ok THEN "open_socket" ELSE "failed"]
    /\ UNCHANGED <<stream, stream_handles, reset_queue, rpc, handles,
                   resets_sent, resets_done, open_at_reset>>
    /\ UNCHANGED nonHttpsVars

\* call(): open_socket(addr).await; TcpStream::connect establishes the
\* connection, or fails or times out
OpenSocket(c, ok) ==
    /\ hpc[c] = "open_socket"
    /\ IF ok
       THEN /\ stream' = [stream EXCEPT ![c] = "open"]
            /\ hpc' = [hpc EXCEPT ![c] = "opened"]
       ELSE /\ hpc' = [hpc EXCEPT ![c] = "failed"]
            /\ UNCHANGED stream
    /\ UNCHANGED <<stream_handles, reset_queue, rpc, handles, resets_sent,
                   resets_done, open_at_reset>>
    /\ UNCHANGED nonHttpsVars

\* call(): AbortableStream::new, then under the lock of `inner` the closed
\* handles are removed and the new handle is pushed
PushHandle(c) ==
    /\ hpc[c] = "opened"
    /\ stream_handles' = Retain(stream_handles, stream) \cup {c}
    /\ hpc' = [hpc EXCEPT ![c] = "connect_https"]
    /\ UNCHANGED <<stream, reset_queue, rpc, handles, resets_sent,
                   resets_done, open_at_reset>>
    /\ UNCHANGED nonHttpsVars

\* call(): TlsStream::connect_https(tcp_stream, &hostname).await?; on an
\* error the stream is dropped, which closes the connection
ConnectHttps(c, ok) ==
    /\ hpc[c] = "connect_https"
    /\ IF ok
       THEN /\ hpc' = [hpc EXCEPT ![c] = "returned"]
            /\ UNCHANGED stream
       ELSE /\ hpc' = [hpc EXCEPT ![c] = "failed"]
            /\ stream' = [stream EXCEPT ![c] = "closed"]
    /\ UNCHANGED <<stream_handles, reset_queue, rpc, handles, resets_sent,
                   resets_done, open_at_reset>>
    /\ UNCHANGED nonHttpsVars

\* HttpsConnectorWithSniHandle::reset: tx.unbounded_send(()).
\* open_at_reset records which connections are open at this moment.
Reset ==
    /\ resets_sent < MaxResets
    /\ resets_sent' = resets_sent + 1
    /\ reset_queue' = reset_queue + 1
    /\ open_at_reset' =
          [open_at_reset EXCEPT ![resets_sent + 1] =
              {c \in Connects : stream[c] = "open"}]
    /\ UNCHANGED <<hpc, stream, stream_handles, rpc, handles, resets_done>>
    /\ UNCHANGED nonHttpsVars

\* the spawned task: rx.next().await yields a request; under the lock of
\* `inner` the registered handles are taken out
TakeHandles ==
    /\ rpc = "next"
    /\ reset_queue > 0
    /\ reset_queue' = reset_queue - 1
    /\ handles' = stream_handles
    /\ stream_handles' = {}
    /\ rpc' = "close"
    /\ UNCHANGED <<hpc, stream, resets_sent, resets_done, open_at_reset>>
    /\ UNCHANGED nonHttpsVars

\* the spawned task: for handle in handles { handle.close(); }, then back
\* to rx.next()
CloseHandles ==
    /\ rpc = "close"
    /\ stream' = CloseAll(stream, handles)
    /\ handles' = {}
    /\ resets_done' = resets_done + 1
    /\ rpc' = "next"
    /\ UNCHANGED <<hpc, stream_handles, reset_queue, resets_sent,
                   open_at_reset>>
    /\ UNCHANGED nonHttpsVars

HttpsNext ==
    \/ \E c \in Connects :
          \/ \E ok \in BOOLEAN : CallBegin(c, ok)
          \/ \E ok \in BOOLEAN : OpenSocket(c, ok)
          \/ PushHandle(c)
          \/ \E ok \in BOOLEAN : ConnectHttps(c, ok)
    \/ Reset
    \/ TakeHandles
    \/ CloseHandles

(***************************************************************************)
(* Specifications                                                          *)
(***************************************************************************)
InitWait == DrvInit /\ WaitInit /\ AddrIdle /\ NotifyInit /\ HttpsInit

SpecWait == InitWait /\ [][WaitNext]_vars

\* Scheduling: the task running the wait is polled when it can proceed, and
\* the OS delivers queued notifications; nothing obliges the OS to attach a
\* family, to send other notifications, or the caller to abandon the wait.
FairSpecWait ==
    /\ SpecWait
    /\ WF_vars(\E ok \in BOOLEAN : Register(ok))
    /\ WF_vars(\E answer \in {"found", "notfound", "error"} : Query4(answer))
    /\ WF_vars(\E answer \in {"found", "notfound", "error"} : Query6(answer))
    /\ WF_vars(Resume)
    /\ WF_vars(EndDrop)
    /\ \A n \in NotifyThreads :
          WF_vars(Dispatch(n)) /\ WF_vars(CallbackLock(n)) /\ WF_vars(CallbackBody(n))

InitDriver == DrvInit /\ WaitIdle /\ AddrIdle /\ NotifyInit /\ HttpsInit

SpecDriver == InitDriver /\ [][DrvNext]_vars

InitAddr == DrvInit /\ WaitIdle /\ AddrInit /\ NotifyInit /\ HttpsInit

SpecAddr == InitAddr /\ [][AddrNext]_vars

InitRaw == DrvInit /\ WaitIdle /\ RawInit /\ NotifyInit /\ HttpsInit

SpecRaw == InitRaw /\ [][RawNext]_vars

InitNotify == DrvInit /\ WaitIdle /\ AddrIdle /\ NotifyInit /\ HttpsInit

SpecNotify == InitNotify /\ [][NotifyNext]_vars

InitHttps == DrvInit /\ WaitIdle /\ AddrIdle /\ NotifyInit /\ HttpsInit

SpecHttps == InitHttps /\ [][HttpsNext]_vars


(***************************************************************************)
(* Claims about wireguard_nt.rs, checked under SpecDriver                  *)
(***************************************************************************)
\* the native handles the driver has handed out
Created == {t \in Threads : adapters[t].fate # "none"}

\* C1: over every way a created handle's life can end (delete succeeds,
\* delete fails, dropped without delete) the driver's release entry points
\* are invoked on it exactly once in total, delete_adapter or free_adapter
\* and never both: at most one call while the handle lives, exactly one once
\* its WgNtAdapter is gone.
C1_ReleasedExactlyOnce ==
    \A h \in Created :
        /\ adapters[h].freeCalls + adapters[h].deleteCalls <= 1
        /\ adapters[h].fate # "live"
              => adapters[h].freeCalls + adapters[h].deleteCalls = 1

\* C2: when start_tunnel has returned success and the caller still holds
\* the returned WgNtTunnel, the adapter it created has been neither freed
\* nor deleted.
C2_TunnelOwnsAdapter ==
    \A t \in Threads :
        (op[t] = "start_tunnel" /\ pc[t] = "done" /\ result[t] = "Ok")
            => /\ adapters[device[t]].fate = "live"
               /\ adapters[device[t]].freeCalls = 0
               /\ adapters[device[t]].deleteCalls = 0

\* C4: as long as no WgNtDll::new has failed, WgNtDll::new is executed at
\* most once however the load_wg_nt_dll calls interleave, exactly once as
\* soon as a caller holds a binding, and every binding held by a caller or
\* by an adapter is the cached one.
C4_SingleFlight ==
    newFailures = 0 =>
        /\ newCalls <= 1
        /\ \A t \in Threads :
              /\ dll[t] # 0 => (dll[t] = WG_NT_DLL /\ newCalls = 1)
              /\ adapters[t].dll # 0
                    => (adapters[t].dll = WG_NT_DLL /\ newCalls = 1)

\* C4 witness: two callers hold a binding at the same time, both obtained
\* from load_wg_nt_dll without any failed load.
C4_Witness ==
    /\ newFailures = 0
    /\ \E t, u \in Threads : t # u /\ dll[t] # 0 /\ dll[u] # 0

\* C7: a handle whose WgNtAdapter was dropped without delete has had
\* free_adapter invoked on it exactly once and delete_adapter never.
C7_DropFreesOnce ==
    \A h \in Created :
        adapters[h].fate = "dropped"
            => adapters[h].freeCalls = 1 /\ adapters[h].deleteCalls = 0

\* C7 witness: a WgNtAdapter held by its owner was dropped without delete.
C7_Witness ==
    \E t \in Threads : op[t] = "adapter" /\ adapters[t].fate = "dropped"


(***************************************************************************)
(* Claims about wait_for_interfaces, checked under SpecWait (C3 under      *)
(* FairSpecWait)                                                           *)
(***************************************************************************)
AllRequestedAttached == \A f \in Families : Wants(f) => attached[f]

AllRequestedFound == \A f \in Families : Wants(f) => queried[f] = "found"

\* the step is the body of a callback invocation of thread n
CallbackStep(n) ==
    invocation[n].st = "running" /\ invocation'[n].st = "idle"

\* C3: once every requested family of the adapter is attached, whenever
\* that happened relative to the registration and the queries, the wait
\* eventually returns success, unless registration or a query failed or the
\* caller abandoned the wait.
C3_NoLostAttachment ==
    AllRequestedAttached
        ~> (wres = "Ok" \/ wres = "OsError" \/ wres = "abandoned")

\* the wait requests exactly one family
SingleFamily == want.ipv4 # want.ipv6

Requested == IF want.ipv4 THEN AF_INET ELSE AF_INET6

\* an "instance added" notification for the adapter and the requested family
Matching(ev) ==
    ev.luid = Luid /\ ev.ntype = MibAddInstance /\ ev.family = Requested

\* a notification for another interface, of another type, or of a family
\* that is neither IPv4 nor IPv6
Unrelated(ev) ==
    \/ ev.luid # Luid
    \/ ev.ntype # MibAddInstance
    \/ ev.family \notin {AF_INET, AF_INET6}

\* C5: in a wait on one requested family, the completion signal is sent by
\* the callback that handles the one matching "instance added" notification
\* and by no other step; a callback for an unrelated notification changes
\* neither the found flags nor tx; a wait that found no row at the query
\* returns success only after the signal was sent once, and a wait at
\* rx.await whose signal was sent can resume.
C5_SingleFamilyWait ==
    /\ [][SingleFamily =>
            /\ \A n \in NotifyThreads :
                  (CallbackStep(n) /\ ~closureFreed) =>
                      /\ Matching(invocation[n].ev)
                            <=> closure'.sends = closure.sends + 1
                      /\ Matching(invocation[n].ev) => closure'.sends = 1
                      /\ Unrelated(invocation[n].ev) => closure' = closure
            /\ (\A n \in NotifyThreads : ~CallbackStep(n)) => closure' = closure
         ]_vars
    /\ []((SingleFamily /\ queried[Requested] = "notfound" /\ wres = "Ok")
             => closure.sends = 1)
    /\ []((SingleFamily /\ wpc = "await" /\ closure.sends = 1)
             => ENABLED Resume)

\* C5 witness: a one-family wait found no row, was sent unrelated
\* notifications, and returned success with nothing left undelivered.
C5_Witness ==
    /\ SingleFamily
    /\ queried[Requested] = "notfound"
    /\ wpc = "done" /\ wres = "Ok"
    /\ noise = MaxNoise
    /\ pending = << >>

\* C6: when the direct queries found a row for every requested family, the
\* wait never reaches rx.await and what it returns is success; a wait that
\* requests no family never reaches rx.await either.
C6_NoSuspendWhenPresent ==
    /\ (sub # "failed" /\ AllRequestedFound) =>
          /\ ~reachedAwait
          /\ wpc \in {"dropping", "done"} => wres = "Ok"
    /\ (~want.ipv4 /\ ~want.ipv6) => ~reachedAwait

\* C6 witness: both families requested, both found by the queries, and the
\* wait has returned.
C6_Witness ==
    /\ want.ipv4 /\ want.ipv6
    /\ AllRequestedFound
    /\ wpc = "done" /\ wres = "Ok"

\* C8: after a failed registration or a query that failed with an error
\* other than not-found, the wait has returned the OS error without
\* reaching rx.await; after a query answered not-found the wait is at
\* rx.await or beyond and has not returned an error.
C8_ErrorsAbortWithoutSuspending ==
    /\ (sub = "failed" \/ \E f \in Families : queried[f] = "error") =>
          /\ ~reachedAwait
          /\ wpc \in {"dropping", "done"}
          /\ wres = "OsError"
    /\ (\E f \in Families : queried[f] = "notfound") =>
          /\ reachedAwait
          /\ wres # "OsError"

\* C8 witness: the IPv4 row was found, the IPv6 query failed, and the wait
\* has returned.
C8_Witness ==
    /\ queried[AF_INET] = "found"
    /\ queried[AF_INET6] = "error"
    /\ wpc = "done"

\* C9: a wait whose callback was registered and that has ended (success,
\* query error, or abandoned at rx.await) has called CancelMibChangeNotify2
\* on its handle exactly once, never more; once the subscription is
\* unregistered or the closure is dropped no callback invocation is in
\* progress, and no callback body ever runs on the dropped closure.
C9_UnregisteredOnce ==
    /\ cancelCalls <= 1
    /\ (wpc = "done" /\ sub # "failed") => (cancelCalls = 1 /\ sub = "cancelled")
    /\ (sub = "cancelled" \/ closureFreed)
          => \A n \in NotifyThreads : invocation[n].st = "idle"
    /\ ~lateCallback

\* C9 witness: the wait was abandoned at rx.await while a callback
\* invocation was in progress, and the unregistration is waiting for it.
C9_Witness ==
    /\ wpc = "dropping" /\ wres = "abandoned"
    /\ sub = "cancelling"
    /\ \E n \in NotifyThreads : invocation[n].st = "running"


(***************************************************************************)
(* Claims about the address conversion, checked under SpecAddr             *)
(***************************************************************************)
\* C10: for every socket address a, decoding the encoding of a succeeds and
\* yields a.
C10_RoundTrip ==
    apc = "decoded" => decoded = [tag |-> "Ok", addr |-> addr]

\* C10 witness: an IPv6 address with non-zero flow-info and scope-id, whose
\* octets are no palindrome, at port 65535, went through both conversions.
C10_Witness ==
    /\ apc = "decoded"
    /\ addr.v = "V6"
    /\ addr.ip = <<254, 128, 0, 0, 0, 0, 0, 0, 18, 52, 86, 120, 154, 188, 222, 240>>
    /\ addr.port = 65535
    /\ addr.flowinfo = <<1, 2, 3, 4>>
    /\ addr.scope_id = <<255, 255, 255, 255>>

(***************************************************************************)
(* Claims about decoding native structures, checked under SpecRaw          *)
(***************************************************************************)
\* the 16-bit si_family of the structure, as laid out in memory
FamilyTag == sockaddr[1] + 256 * sockaddr[2]

\* C11: decoding a native structure fails exactly when its family
\* discriminant is neither the IPv4 nor the IPv6 tag, and the error then
\* carries the discriminant that was read; with a known tag decoding
\* succeeds and yields an address of that family.
C11_UnknownFamily ==
    apc = "decoded" =>
        /\ decoded.tag = "Err" <=> FamilyTag \notin {AF_INET, AF_INET6}
        /\ decoded.tag = "Err" => decoded.UnknownAddressFamily = FamilyTag
        /\ FamilyTag = AF_INET => decoded.tag = "Ok" /\ decoded.addr.v = "V4"
        /\ FamilyTag = AF_INET6 => decoded.tag = "Ok" /\ decoded.addr.v = "V6"

C11_Witness ==
    /\ apc = "decoded"
    /\ FamilyTag = 99
    /\ decoded = [tag |-> "Err", UnknownAddressFamily |-> 99]

(***************************************************************************)
(* Claims about loading the driver and start_tunnel, checked under         *)
(* SpecDriver                                                              *)
(***************************************************************************)
Returned(t) == pc[t] \in {"done", "finished"}

\* C12: when the driver library cannot be loaded the operation returns the
\* driver-load error and WgNtAdapter::create is never invoked: the thread
\* has made no create_adapter call, owns no adapter, and no free or delete
\* call was made for it.  Every failed WgNtDll::new ends one operation this
\* way.
C12_LoadFailureStopsBringup ==
    /\ \A t \in Threads :
          result[t] = "DllError" =>
              /\ Returned(t)
              /\ createCalls[t] = 0
              /\ adapters[t] = NoAdapter
              /\ device[t] = 0
    /\ \A t \in Threads : failed_step[t] # "none" <=> result[t] = "DllError"
    /\ Cardinality({t \in Threads : result[t] = "DllError"}) = newFailures

C12_Witness ==
    \E t \in Threads :
        /\ op[t] = "start_tunnel"
        /\ failed_step[t] = "LoadLibraryExW"
        /\ result[t] = "DllError"
        /\ pc[t] = "finished"

\* C13: the error a failed load returns tells which step failed, mapping
\* the image or resolving one of the three exports, and which export: two
\* loads that failed at different steps return different errors.
C13_ErrorTellsStep ==
    \A t, u \in Threads :
        (/\ result[t] = "DllError"
         /\ result[u] = "DllError"
         /\ failed_step[t] # failed_step[u])
        => dll_error[t] # dll_error[u]

\* C14: when create succeeds, start_tunnel returns success whether or not
\* the driver asked for a reboot; the flag only decides whether the warning
\* is logged, and the steps taken on the adapter are the same either way.
C14_RebootIsAdvisory ==
    \A t \in Threads :
        (op[t] = "start_tunnel" /\ Returned(t) /\ adapters[t] # NoAdapter) =>
            /\ result[t] = "Ok"
            /\ warned[t] = reboot_required[t]
            /\ createCalls[t] = 1
            /\ adapters[t] =
                  [NewAdapter(adapters[t].dll)
                      EXCEPT !.freeCalls = 1, !.fate = "dropped"]

C14_Witness ==
    \E t \in Threads :
        /\ op[t] = "start_tunnel"
        /\ Returned(t)
        /\ reboot_required[t]
        /\ warned[t]
        /\ result[t] = "Ok"

\* C18: once a load has succeeded the cache keeps that binding, no further
\* WgNtDll::new runs and no further image is mapped; every later call of
\* load_wg_nt_dll leaves the match with the cached binding, whatever
\* directory it was given.
C18_CachedBindingReused ==
    [][WG_NT_DLL # 0 =>
          /\ WG_NT_DLL' = WG_NT_DLL
          /\ newCalls' = newCalls
          /\ Len(images') = Len(images)
          /\ \A t \in Threads :
                (pc[t] = "match" /\ pc'[t] # "match") =>
                    /\ pc'[t] = "create"
                    /\ dll'[t] = WG_NT_DLL]_vars

C18_Witness ==
    \E t \in Threads :
        /\ dll[t] # 0
        /\ dll[t] = WG_NT_DLL
        /\ loaded_from[WG_NT_DLL] # resource_dir[t]
        /\ newCalls = 1

\* holders of a strong reference to image b besides the cache
Holders(b) ==
    Cardinality({t \in Threads : dll[t] = b})
    + Cardinality({t \in Threads :
                      adapters[t].fate = "live" /\ adapters[t].dll = b})

\* C19: the cached library is never unloaded: its reference count is one
\* for the cache plus one per holder, so it never reaches zero, and
\* FreeLibrary is called on no image, whatever adapters are created,
\* deleted or dropped.
C19_NeverUnloaded ==
    /\ WG_NT_DLL # 0 =>
          /\ images[WG_NT_DLL].bound
          /\ images[WG_NT_DLL].refs = 1 + Holders(WG_NT_DLL)
    /\ \A i \in DOMAIN images : images[i].mapped

C19_Witness ==
    /\ WG_NT_DLL # 0
    /\ images[WG_NT_DLL].refs = 1
    /\ \E t \in Threads : adapters[t].fate = "dropped"
    /\ \E t \in Threads : adapters[t].fate \in {"deleted", "delete_failed"}

(***************************************************************************)
(* Claims about the order of the wait's steps and its completion signal,   *)
(* checked under SpecWait                                                  *)
(***************************************************************************)
\* C15: in every execution of wait_for_interfaces the registration of the
\* callback has completed before the first direct row query: a query runs
\* only while the subscription is registered, and when registration failed
\* the wait has returned without any query.
C15_RegisterBeforeQuery ==
    /\ [](\A f \in Families :
             queried[f] # "none" => sub \in {"active", "cancelling", "cancelled"})
    /\ [](sub = "failed" => wpc = "done" /\ wres = "OsError")
    /\ [][\A f \in Families : queried'[f] # queried[f] => sub = "active"]_vars

C15_Witness ==
    /\ sub = "active"
    /\ queried[AF_INET] = "found"
    /\ queried[AF_INET6] = "none"
    /\ wpc = "query6"

\* C16: the completion signal is sent at most once, by the send that
\* consumes the sender, and once every requested family has been marked
\* found every later callback changes no flag and sends nothing.
C16_SignalAtMostOnce ==
    /\ [](closure.sends = IF closure.tx THEN 0 ELSE 1)
    /\ [][\A n \in NotifyThreads :
             (CallbackStep(n) /\ closure.found_ipv4 /\ closure.found_ipv6)
             => closure' = closure]_vars

C16_Witness ==
    /\ closure.sends = 1
    /\ ~closureFreed
    /\ \E n \in NotifyThreads :
          /\ invocation[n].st = "running"
          /\ invocation[n].ev = Event(Luid, MibAddInstance, AF_UNSPEC)

(***************************************************************************)
(* Claims about callbacks of several subscriptions, checked under          *)
(* SpecNotify                                                              *)
(***************************************************************************)
\* the threads that execute the callback body of subscription h
Running(h) ==
    {n \in NotifyThreads : ncall[n].st = "running" /\ ncall[n].ctx = h}

\* C17: the invocations of one subscription's callback are serialized by
\* the lock inside its IpNotifierHandle: at most one thread executes the
\* body of a given subscription's callback, and it is the holder of that
\* subscription's mutex.  Bodies of different subscriptions are not ordered:
\* the witness has two of them executing at once.
C17_CallbacksSerialized ==
    \A h \in Subscriptions :
        /\ Cardinality(Running(h)) <= 1
        /\ Running(h) = IF nmutex[h] = 0 THEN {} ELSE {nmutex[h]}

C17_Witness ==
    \E h1, h2 \in Subscriptions :
        \E n1, n2 \in NotifyThreads :
            /\ h1 # h2
            /\ n1 \in Running(h1)
            /\ n2 \in Running(h2)
            /\ ndelivered[h1] = MaxDeliveries

(***************************************************************************)
(* Claims about https_client_with_sni.rs, checked under SpecHttps          *)
(***************************************************************************)
\* C20: reset stops all streams of the connector: once a reset request has
\* been processed, every stream whose TCP connection was open when the
\* request was sent is closed, however the request interleaves with the
\* connect calls in progress.
C20_ResetStopsAllStreams ==
    \A r \in 1..resets_done : \A c \in open_at_reset[r] : stream[c] = "closed"

(***************************************************************************)
(* Claims about failed loads and failed registrations                      *)
(***************************************************************************)
\* C21 (SpecDriver): a failed load leaves the cache as it was, empty, and
\* returns the error; the cache is empty exactly as long as no load has
\* succeeded, so a later call takes the None arm and runs WgNtDll::new
\* again, and a load that then succeeds is cached and returned.
C21_FailedLoadRetried ==
    /\ [](WG_NT_DLL = 0 <=> newCalls = newFailures)
    /\ [][newFailures' # newFailures =>
             /\ WG_NT_DLL = 0
             /\ WG_NT_DLL' = 0
             /\ \E t \in Threads :
                   /\ pc[t] = "new"
                   /\ result'[t] = "DllError"
                   /\ dll'[t] = 0]_vars
    /\ [][\A t \in Threads :
             (pc[t] = "match" /\ WG_NT_DLL = 0 /\ pc'[t] # "match")
             => pc'[t] = "new"]_vars
    /\ [][(newCalls' # newCalls /\ newFailures' = newFailures) =>
             \E t \in Threads :
                 /\ pc[t] = "new"
                 /\ WG_NT_DLL' = Len(images')
                 /\ dll'[t] = WG_NT_DLL'
                 /\ images'[WG_NT_DLL'].bound]_vars

C21_Witness ==
    /\ newFailures = 1
    /\ newCalls = 2
    /\ WG_NT_DLL # 0
    /\ \E t, u \in Threads :
          /\ result[t] = "DllError"
          /\ dll[u] = WG_NT_DLL

\* C22 (SpecWait): CancelMibChangeNotify2 is called only for a subscription
\* whose registration succeeded, and once for it; a failed registration is
\* followed by no unregister call on the null handle.
C22_CancelOnlyRegistered ==
    /\ cancelNullCalls = 0
    /\ cancelCalls <= 1
    /\ cancelCalls = 1 => sub \in {"cancelling", "cancelled"}

\* C23 (SpecDriver): every image mapped by WgNtDll::new is owned by a
\* WgNtDll value or has been unmapped: none stays mapped without an owner,
\* in particular not after an export could not be resolved.
C23_MappedImageOwned ==
    \A i \in DOMAIN images : images[i].bound \/ ~images[i].mapped

====
